---------------------------- MODULE Spec2Model ----------------------------
(***************************************************************************)
(* A model of youtube_saver.py: the confirmation gate (confirm_action),    *)
(* the staleness test (should_scrape), the three paginated / single-page   *)
(* remote operations and the sequential main loop that drives them.        *)
(*                                                                         *)
(* Time is counted in whole seconds since 1970-01-01T00:00:00Z.  Operator  *)
(* input is a sequence of characters, normalised as the code does with     *)
(* .strip().lower().  The remote platform and the operator are the         *)
(* environment: their answers are drawn with \E in the actions.            *)
(***************************************************************************)
EXTENDS Integers, Sequences, FiniteSets, TLC

VARIABLES
    pc,                     \* position of the single control thread
    run,                    \* number of the current process run (1, 2, ..)
    auto_yes,               \* args.yes_to_all of this run
    confirm_all,            \* state['confirm_all']
    quota_usage,            \* global quota_usage
    ESTIMATED_DAILY_QUOTA,  \* setting, fixed for all runs
    SCRAPE_INTERVAL_DAYS,   \* setting, fixed for all runs
    now,                    \* wall clock, seconds since the epoch
    channel,                \* the platform's list of the channel's videos
    files,                  \* DATA_DIR: video id -> file content
    video_ids,              \* get_all_video_ids: ids collected so far
    next_page_token,        \* the page token held by the running pagination
    idx,                    \* main: enumerate index, 0 before the first video
    metadata,               \* main: metadata of the current video
    comments,               \* get_video_comments: comments collected so far
    last,                   \* the step taken last (history)
    hist,                   \* per-run counters of what happened (history)
    trace,                  \* whether the run went without refusal or failure (history)
    startup,                \* the settings file and what module startup did
    maxResults              \* search.list: the page size, scaled down

vars == <<pc, run, auto_yes, confirm_all, quota_usage, ESTIMATED_DAILY_QUOTA,
          SCRAPE_INTERVAL_DAYS, now, channel, files, video_ids,
          next_page_token, idx, metadata, comments, last, hist, trace, startup,
          maxResults>>

settings == <<ESTIMATED_DAILY_QUOTA, SCRAPE_INTERVAL_DAYS, channel, startup, maxResults>>

---------------------------------------------------------------------------
(* Bounds of the model and constants of the program.                       *)

\* number of process runs explored (the data directory survives a run)
MaxRuns == 2
\* ids the platform returns per search.list page (maxResults, scaled down)
PageSize == 1
\* comment pages the platform serves for one video at most
MaxCommentPages == 2
\* the clock when the first run starts, in days since the epoch
NowDays == 20000

SecondsPerDay == 86400
SearchCost == 100
VideosCost == 1
CommentsCost == 1
DefaultInterval == 7
DefaultQuota == 10000

VideoIds == {"v1", "v2"}
None == 0

---------------------------------------------------------------------------
(* Text handling of the operator's answer: input(...).strip().lower()      *)

IsSpace(c) == c \in {" ", "\t"}

Lower(c) ==
    CASE c = "Y" -> "y"
      [] c = "A" -> "a"
      [] c = "N" -> "n"
      [] c = "L" -> "l"
      [] c = "O" -> "o"
      [] OTHER -> c

RECURSIVE LStrip(_)
LStrip(s) == IF s # <<>> /\ IsSpace(Head(s)) THEN LStrip(Tail(s)) ELSE s

RECURSIVE RStrip(_)
RStrip(s) ==
    IF s # <<>> /\ IsSpace(s[Len(s)]) THEN RStrip(SubSeq(s, 1, Len(s) - 1)) ELSE s

Strip(s) == RStrip(LStrip(s))

LowerStr(s) == [i \in 1..Len(s) |-> Lower(s[i])]

Normalise(raw) == LowerStr(Strip(raw))

\* what the operator may type at a prompt
RawInputs ==
    { <<"y">>, <<"Y">>, <<" ", "y", " ">>,
      <<"a">>, <<"A", " ">>,
      <<"n">>, <<" ", "N">>,
      <<"a", "l", "l">>, <<"n", "o">>, <<"y", "e", "s">>,
      <<>>, <<" ">>, <<"x">> }

---------------------------------------------------------------------------
(* The data directory: one file per video id.                              *)

\* the 'scraped_at' text of a record: absent, well-formed (encoding the
\* second t) or not matching '%Y-%m-%dT%H:%M:%SZ'
NoStamp == [kind |-> "missing", t |-> 0]
BadStamp == [kind |-> "malformed", t |-> 0]

\* datetime.strftime('%Y-%m-%dT%H:%M:%SZ') of the instant t
strftime(t) == [kind |-> "ok", t |-> t]

\* the default of data.get('scraped_at', '1970-01-01T00:00:00Z')
EpochStamp == strftime(0)

NoFile == [kind |-> "none", scraped_at |-> NoStamp, title |-> "", comments |-> <<>>]

\* a file that is not JSON, or not a JSON object: an empty or truncated file
CorruptFile == [kind |-> "corrupt", scraped_at |-> NoStamp, title |-> "", comments |-> <<>>]

Record(stamp, title, cs) ==
    [kind |-> "record", scraped_at |-> stamp, title |-> title, comments |-> cs]

\* iso_to_datetime raises on text that does not match the format
iso_parses(stamp) == stamp.kind = "ok"

iso_to_datetime(stamp) == stamp.t

timedelta(days) == days * SecondsPerDay

\* should_scrape on the content of the file, the clock and the interval
\* variant: an age of exactly the interval counts as stale
should_scrape_of_nonStrict(file, t, interval) ==
    IF file.kind = "none" THEN TRUE
    ELSE IF file.kind = "corrupt" THEN TRUE
    ELSE LET stamp == IF file.scraped_at.kind = "missing"
                      THEN EpochStamp ELSE file.scraped_at
         IN  IF ~ iso_parses(stamp) THEN TRUE
             ELSE t - iso_to_datetime(stamp) >= timedelta(interval)

\* variant: a file that cannot be read or parsed is skipped
should_scrape_of_unreadableSkipped(file, t, interval) ==
    IF file.kind = "none" THEN TRUE
    ELSE IF file.kind = "corrupt" THEN FALSE
    ELSE LET stamp == IF file.scraped_at.kind = "missing"
                      THEN EpochStamp ELSE file.scraped_at
         IN  IF ~ iso_parses(stamp) THEN FALSE
             ELSE t - iso_to_datetime(stamp) > timedelta(interval)

should_scrape_of(file, t, interval) ==
    IF file.kind = "none" THEN TRUE
    ELSE IF file.kind = "corrupt" THEN TRUE
    ELSE LET stamp == IF file.scraped_at.kind = "missing"
                      THEN EpochStamp ELSE file.scraped_at
         IN  IF ~ iso_parses(stamp) THEN TRUE
             ELSE t - iso_to_datetime(stamp) > timedelta(interval)

should_scrape(video_id) ==
    should_scrape_of(files[video_id], now, SCRAPE_INTERVAL_DAYS)

---------------------------------------------------------------------------
(* The platform's answers.                                                 *)

\* the position a page token stands for; no token is the first page
PageStart(token) == IF token = None THEN 1 ELSE token

\* the comment thread the platform serves on page k of a video: a top-level
\* comment, with one reply on the even pages
Thread(k) == [id |-> k, replies |-> IF k % 2 = 0 THEN <<100 + k>> ELSE <<>>]

\* commentThreads.list: what a page may hold, and whether a token follows it;
\* a video without comments has one empty page
CommentPages(token) ==
    { [items |-> <<Thread(PageStart(token))>>, more |-> m] :
        m \in { b \in BOOLEAN : b => PageStart(token) < MaxCommentPages } }
    \cup { [items |-> <<>>, more |-> FALSE] : x \in { y \in {token} : y = None } }

\* lines 154-172: a thread becomes its top-level comment followed by its replies
FlattenThread(item) ==
    <<[comment_id |-> item.id, parent_id |-> None]>> \o
    [i \in 1..Len(item.replies) |->
        [comment_id |-> item.replies[i], parent_id |-> item.id]]

RECURSIVE FlattenItems(_)
FlattenItems(items) ==
    IF items = <<>> THEN <<>>
    ELSE FlattenThread(Head(items)) \o FlattenItems(Tail(items))

Min(a, b) == IF a < b THEN a ELSE b

\* search.list: the page of the channel that starts at the token
SearchItems(token) ==
    SubSeq(channel, PageStart(token), Min(PageStart(token) + maxResults - 1, Len(channel)))

SearchNextToken(token) ==
    IF PageStart(token) + maxResults <= Len(channel)
    THEN PageStart(token) + maxResults ELSE None

---------------------------------------------------------------------------
(* History kept for the properties.                                        *)

Hist0 == [approvals |-> 0, charged |-> 0, requests |-> 0, writes |-> 0,
          summary |-> FALSE, visited |-> <<>>]

Event(op, kind, ret, cost, prompted, read, ans, video) ==
    [op |-> op, kind |-> kind, ret |-> ret, cost |-> cost,
     prompted |-> prompted, read |-> read, ans |-> ans, video |-> video]

Start == Event("start", "", "", 0, FALSE, FALSE, <<>>, "")

\* the second history: whether every gate of the run approved and nothing
\* failed so far, and, where it is tracked, the videos whose record on disk
\* was written after a comment page was refused
Trace0 == [clean |-> TRUE, track |-> FALSE, partial |-> {}]

Tracking == [Trace0 EXCEPT !.track = TRUE]

\* the file of the video was written: a record (ok), after a refused comment
\* page or not, or a truncated file
Written(video, refused, ok) ==
    trace' = [trace EXCEPT
                 !.clean = @ /\ ok,
                 !.partial = IF trace.track /\ refused /\ ok
                             THEN @ \cup {video} ELSE @ \ {video}]

DirEmpty == \A v \in VideoIds : files[v].kind = "none"

Failed == trace' = [trace EXCEPT !.clean = FALSE]

GateTrace(ret) == trace' = [trace EXCEPT !.clean = @ /\ ret = "True"]

\* what the operator does at a prompt: types a line, or stdin is at its end
InputEvents ==
    { [eof |-> FALSE, raw |-> r] : r \in RawInputs } \cup { [eof |-> TRUE, raw |-> <<>>] }

---------------------------------------------------------------------------
(* confirm_action(prompt, estimated_cost, auto_yes), as the outcome of one *)
(* call: what it returns, the new quota_usage and confirm_all, and whether *)
(* the prompt was printed and a line was read.                             *)

Outcome(ret, quota, all, prompted, read, ans) ==
    [ret |-> ret, quota |-> quota, all |-> all,
     prompted |-> prompted, read |-> read, ans |-> ans]

\* variant: 'a' proceeds once and leaves confirm_all as it is
answer_ignoresAll(estimated_cost, ans) ==
    IF ans = <<"a">> \/ ans = <<"y">>
    THEN Outcome("True", quota_usage + estimated_cost, confirm_all, TRUE, TRUE, ans)
    ELSE IF ans = <<"n">>
    THEN Outcome("exit", quota_usage, confirm_all, TRUE, TRUE, ans)
    ELSE Outcome("False", quota_usage, confirm_all, TRUE, TRUE, ans)

\* variant: an unrecognised answer is taken as 'y'
answer_otherProceeds(estimated_cost, ans) ==
    IF ans = <<"a">>
    THEN Outcome("True", quota_usage + estimated_cost, TRUE, TRUE, TRUE, ans)
    ELSE IF ans = <<"n">>
    THEN Outcome("exit", quota_usage, confirm_all, TRUE, TRUE, ans)
    ELSE Outcome("True", quota_usage + estimated_cost, confirm_all, TRUE, TRUE, ans)

\* variant: 'y' proceeds without adding the cost
answer_yesUncharged(estimated_cost, ans) ==
    IF ans = <<"a">>
    THEN Outcome("True", quota_usage + estimated_cost, TRUE, TRUE, TRUE, ans)
    ELSE IF ans = <<"y">>
    THEN Outcome("True", quota_usage, confirm_all, TRUE, TRUE, ans)
    ELSE IF ans = <<"n">>
    THEN Outcome("exit", quota_usage, confirm_all, TRUE, TRUE, ans)
    ELSE Outcome("False", quota_usage, confirm_all, TRUE, TRUE, ans)

\* lines 100-110: the answer read at the prompt decides
answer(estimated_cost, ans) ==
    IF ans = <<"a">>
    THEN Outcome("True", quota_usage + estimated_cost, TRUE, TRUE, TRUE, ans)
    ELSE IF ans = <<"y">>
    THEN Outcome("True", quota_usage + estimated_cost, confirm_all, TRUE, TRUE, ans)
    ELSE IF ans = <<"n">>
    THEN Outcome("exit", quota_usage, confirm_all, TRUE, TRUE, ans)
    ELSE Outcome("False", quota_usage, confirm_all, TRUE, TRUE, ans)

\* lines 98-99: the prompt is built and printed, then one line is read
ask(est, estimated_cost, inp) ==
    IF est = 0
    \* quota_usage/ESTIMATED_DAILY_QUOTA raises while the prompt text is built
    THEN Outcome("raise", quota_usage, confirm_all, FALSE, FALSE, <<>>)
    ELSE IF inp.eof
    \* input() raises EOFError after the prompt was printed
    THEN Outcome("raise", quota_usage, confirm_all, TRUE, FALSE, <<>>)
    ELSE answer(estimated_cost, Normalise(inp.raw))

\* variant: only auto_yes skips the prompt
confirm_action_autoOnly(est, estimated_cost, inp) ==
    IF auto_yes
    THEN Outcome("True", quota_usage + estimated_cost, confirm_all, FALSE, FALSE, <<>>)
    ELSE ask(est, estimated_cost, inp)

\* variant: an approval that would pass the estimate ends the run
confirm_action_enforcing(est, estimated_cost, inp) ==
    IF auto_yes \/ confirm_all
    THEN IF quota_usage + estimated_cost > est
         THEN Outcome("exit", quota_usage, confirm_all, FALSE, FALSE, <<>>)
         ELSE Outcome("True", quota_usage + estimated_cost, confirm_all, FALSE, FALSE, <<>>)
    ELSE ask(est, estimated_cost, inp)

\* lines 92-110
confirm_action(est, estimated_cost, inp) ==
    IF auto_yes \/ confirm_all
    THEN Outcome("True", quota_usage + estimated_cost, confirm_all, FALSE, FALSE, <<>>)
    ELSE ask(est, estimated_cost, inp)

Bit(b) == IF b THEN 1 ELSE 0

\* variant: the exit is caught like an exception of the call site
Confirm_exitCaught(est, kind, cost, video, onTrue, onFalse, onRaise) ==
    \E inp \in InputEvents :
        LET r == confirm_action(est, cost, inp) IN
        /\ quota_usage' = r.quota
        /\ confirm_all' = r.all
        /\ last' = Event("confirm", kind, r.ret, cost, r.prompted, r.read, r.ans, video)
        /\ GateTrace(r.ret)
        /\ hist' = [hist EXCEPT !.approvals = @ + Bit(r.ret = "True"),
                                !.charged = @ + (IF r.ret = "True" THEN cost ELSE 0)]
        /\ pc' = CASE r.ret = "True" -> onTrue
                   [] r.ret = "False" -> onFalse
                   [] OTHER -> onRaise

\* one call of confirm_action from the place pc, and where control goes next;
\* exit(0) raises SystemExit, which 'except Exception' does not catch
Confirm(est, kind, cost, video, onTrue, onFalse, onRaise) ==
    \E inp \in InputEvents :
        LET r == confirm_action(est, cost, inp) IN
        /\ quota_usage' = r.quota
        /\ confirm_all' = r.all
        /\ last' = Event("confirm", kind, r.ret, cost, r.prompted, r.read, r.ans, video)
        /\ GateTrace(r.ret)
        /\ hist' = [hist EXCEPT !.approvals = @ + Bit(r.ret = "True"),
                                !.charged = @ + (IF r.ret = "True" THEN cost ELSE 0)]
        /\ pc' = CASE r.ret = "True" -> onTrue
                   [] r.ret = "False" -> onFalse
                   [] r.ret = "exit" -> "aborted"
                   [] OTHER -> onRaise

---------------------------------------------------------------------------
(* The initial state: the settings were loaded, the client was built, the  *)
(* data directory exists and main is about to call get_all_video_ids.      *)

\* the startup of a run that reached main: the settings were read, both
\* required keys are set, the client is built and DATA_DIR exists
Key(present, value) == [present |-> present, value |-> value]

Started ==
    [file |-> "ok", api_key |-> Key(TRUE, "X"), channel_id |-> Key(TRUE, "X"),
     client |-> TRUE, dir |-> TRUE, raised |-> FALSE]

\* estimated_daily_quota: 0 makes the prompt's percentage undefined, and one
\* search page already reaches SearchCost
Estimates == {0, SearchCost}

Intervals == {0, DefaultInterval}

NowStart == NowDays * SecondsPerDay

\* the channel lists each of its videos once; the ids are interchangeable
Channels == { <<>>, <<"v1">>, <<"v1", "v2">> }

OldComments == <<[comment_id |-> 9, parent_id |-> None]>>

\* what an earlier run may have left for a video: nothing, an unreadable
\* file, or a record scraped just now, exactly the interval ago, or one
\* second more than the interval ago
InitFiles(interval) ==
    { NoFile, CorruptFile } \cup
    { Record(strftime(NowStart - age), "old", OldComments) :
        age \in {0, timedelta(interval), timedelta(interval) + 1} }

Range(seq) == { seq[i] : i \in 1..Len(seq) }

\* a run on a channel, a data directory and a page size
InitOn(sizes, history) ==
    /\ pc = "list_confirm"
    /\ run = 1
    /\ auto_yes \in BOOLEAN
    /\ confirm_all = FALSE
    /\ quota_usage = 0
    /\ ESTIMATED_DAILY_QUOTA \in Estimates
    /\ SCRAPE_INTERVAL_DAYS \in Intervals
    /\ now = NowStart
    /\ channel \in Channels
    /\ files \in [VideoIds -> InitFiles(SCRAPE_INTERVAL_DAYS)]
    /\ \A v \in VideoIds \ Range(channel) : files[v] = NoFile
    /\ video_ids = <<>>
    /\ next_page_token = None
    /\ idx = 0
    /\ metadata = ""
    /\ comments = <<>>
    /\ last = Start
    /\ hist = Hist0
    /\ trace = history
    /\ startup = Started
    /\ maxResults \in sizes

Init == InitOn({PageSize}, Trace0)

---------------------------------------------------------------------------
(* get_all_video_ids                                                       *)

\* variant: the page is requested although the gate refused it
ListConfirmE_denialIgnored(est) ==
    /\ pc = "list_confirm"
    /\ Confirm(est, "search", SearchCost, "", "list_request", "list_request", "crashed")
    /\ UNCHANGED <<run, auto_yes, settings, now, files, video_ids,
                   next_page_token, idx, metadata, comments>>

\* line 116: the gate before each search.list page; a refusal breaks the loop
ListConfirmE(est) ==
    /\ pc = "list_confirm"
    /\ Confirm(est, "search", SearchCost, "", "list_request", "loop", "crashed")
    /\ UNCHANGED <<run, auto_yes, settings, now, files, video_ids,
                   next_page_token, idx, metadata, comments>>

ListConfirm == ListConfirmE(ESTIMATED_DAILY_QUOTA)

Issued(kind, ret, video) ==
    /\ last' = Event("request", kind, ret, 0, FALSE, FALSE, <<>>, video)
    /\ hist' = [hist EXCEPT !.requests = @ + 1]

\* variant: the page is requested whether or not the gate was passed
ListRequest_unguarded ==
    /\ pc \in {"list_request", "list_confirm"}
    /\ Issued("search", "page", "")
    /\ UNCHANGED trace
    /\ video_ids' = video_ids \o SearchItems(next_page_token)
    /\ next_page_token' = SearchNextToken(next_page_token)
    /\ pc' = IF SearchNextToken(next_page_token) # None
             THEN "list_confirm" ELSE "loop"
    /\ UNCHANGED <<run, auto_yes, confirm_all, quota_usage, settings, now,
                   files, idx, metadata, comments>>

\* variant: a failing search request is caught and the loop runs on the ids
\* listed so far
ListRequest_raiseCaught ==
    /\ pc = "list_request"
    /\ \/ /\ Issued("search", "page", "")
          /\ UNCHANGED trace
          /\ video_ids' = video_ids \o SearchItems(next_page_token)
          /\ next_page_token' = SearchNextToken(next_page_token)
          /\ pc' = IF SearchNextToken(next_page_token) # None
                   THEN "list_confirm" ELSE "loop"
       \/ /\ Issued("search", "raise", "")
          /\ Failed
          /\ pc' = "loop"
          /\ UNCHANGED <<video_ids, next_page_token>>
    /\ UNCHANGED <<run, auto_yes, confirm_all, quota_usage, settings, now,
                   files, idx, metadata, comments>>

\* variant: the continuation token is dropped, the first page is the last
ListRequest_dropsToken ==
    /\ pc = "list_request"
    /\ \/ /\ Issued("search", "page", "")
          /\ UNCHANGED trace
          /\ video_ids' = video_ids \o SearchItems(next_page_token)
          /\ next_page_token' = None
          /\ pc' = "loop"
       \/ /\ Issued("search", "raise", "")
          /\ Failed
          /\ pc' = "crashed"
          /\ UNCHANGED <<video_ids, next_page_token>>
    /\ UNCHANGED <<run, auto_yes, confirm_all, quota_usage, settings, now,
                   files, idx, metadata, comments>>

\* lines 118-129: one search.list page; an exception here is caught nowhere
ListRequest ==
    /\ pc = "list_request"
    /\ \/ /\ Issued("search", "page", "")
          /\ UNCHANGED trace
          /\ video_ids' = video_ids \o SearchItems(next_page_token)
          /\ next_page_token' = SearchNextToken(next_page_token)
          /\ pc' = IF SearchNextToken(next_page_token) # None
                   THEN "list_confirm" ELSE "loop"
       \/ /\ Issued("search", "raise", "")
          /\ Failed
          /\ pc' = "crashed"
          /\ UNCHANGED <<video_ids, next_page_token>>
    /\ UNCHANGED <<run, auto_yes, confirm_all, quota_usage, settings, now,
                   files, idx, metadata, comments>>

---------------------------------------------------------------------------
(* main: the loop over video_ids                                           *)

video_id == video_ids[idx]

\* lines 187-190: the next video of the listing and its staleness test
LoopNext ==
    /\ pc = "loop"
    /\ idx < Len(video_ids)
    /\ idx' = idx + 1
    /\ LET v == video_ids[idx + 1] IN
       /\ hist' = [hist EXCEPT !.visited = Append(@, v)]
       /\ last' = Event("visit", "", IF should_scrape(v) THEN "True" ELSE "False",
                        0, FALSE, FALSE, <<>>, v)
       /\ pc' = IF should_scrape(v) THEN "meta_confirm" ELSE "loop"
    /\ UNCHANGED <<run, auto_yes, confirm_all, quota_usage, settings, now,
                   files, video_ids, next_page_token, metadata, comments, trace>>

\* line 202: the listing is exhausted, the summary is printed
Finish ==
    /\ pc = "loop"
    /\ idx = Len(video_ids)
    /\ pc' = "done"
    /\ hist' = [hist EXCEPT !.summary = TRUE]
    /\ last' = Event("finish", "", "", 0, FALSE, FALSE, <<>>, "")
    /\ UNCHANGED <<run, auto_yes, confirm_all, quota_usage, settings, now,
                   files, video_ids, next_page_token, idx, metadata, comments, trace>>

\* variant: the metadata is requested although the gate refused it
MetaConfirmE_denialIgnored(est) ==
    /\ pc = "meta_confirm"
    /\ Confirm(est, "videos", VideosCost, video_id, "meta_request", "meta_request", "loop")
    /\ UNCHANGED <<run, auto_yes, settings, now, files, video_ids,
                   next_page_token, idx, metadata, comments>>

\* variant: the metadata request is charged like a search page
MetaConfirmE_searchCost(est) ==
    /\ pc = "meta_confirm"
    /\ Confirm(est, "videos", SearchCost, video_id, "meta_request", "loop", "loop")
    /\ UNCHANGED <<run, auto_yes, settings, now, files, video_ids,
                   next_page_token, idx, metadata, comments>>

\* line 133: the gate before videos.list; a refusal makes get_video_metadata
\* return None, an exception is caught at line 200
MetaConfirmE(est) ==
    /\ pc = "meta_confirm"
    /\ Confirm(est, "videos", VideosCost, video_id, "meta_request", "loop", "loop")
    /\ UNCHANGED <<run, auto_yes, settings, now, files, video_ids,
                   next_page_token, idx, metadata, comments>>

MetaConfirm == MetaConfirmE(ESTIMATED_DAILY_QUOTA)

\* variant: the comments of a video the platform does not return are fetched
MetaRequest_absentFetched ==
    /\ pc = "meta_request"
    /\ \/ /\ Issued("videos", "item", video_id)
          /\ UNCHANGED trace
          /\ metadata' = "new"
          /\ comments' = <<>>
          /\ next_page_token' = None
          /\ pc' = "comm_confirm"
       \/ /\ Issued("videos", "None", video_id)
          /\ Failed
          /\ comments' = <<>>
          /\ next_page_token' = None
          /\ pc' = "comm_confirm"
          /\ UNCHANGED metadata
       \/ /\ Issued("videos", "raise", video_id)
          /\ Failed
          /\ pc' = "loop"
          /\ UNCHANGED <<metadata, comments, next_page_token>>
    /\ UNCHANGED <<run, auto_yes, confirm_all, quota_usage, settings, now,
                   files, video_ids, idx>>

\* variant: a video the platform does not return is saved all the same
MetaRequest_absentSaved ==
    /\ pc = "meta_request"
    /\ \/ /\ Issued("videos", "item", video_id)
          /\ UNCHANGED trace
          /\ metadata' = "new"
          /\ comments' = <<>>
          /\ next_page_token' = None
          /\ pc' = "comm_confirm"
       \/ /\ Issued("videos", "None", video_id)
          /\ Failed
          /\ pc' = "save"
          /\ UNCHANGED <<metadata, comments, next_page_token>>
       \/ /\ Issued("videos", "raise", video_id)
          /\ Failed
          /\ pc' = "loop"
          /\ UNCHANGED <<metadata, comments, next_page_token>>
    /\ UNCHANGED <<run, auto_yes, confirm_all, quota_usage, settings, now,
                   files, video_ids, idx>>

\* lines 135-139 and 193-196: videos.list answers with the video, with no
\* item, or fails
MetaRequest ==
    /\ pc = "meta_request"
    /\ \/ /\ Issued("videos", "item", video_id)
          /\ UNCHANGED trace
          /\ metadata' = "new"
          /\ comments' = <<>>
          /\ next_page_token' = None
          /\ pc' = "comm_confirm"
       \/ /\ Issued("videos", "None", video_id)
          /\ Failed
          /\ pc' = "loop"
          /\ UNCHANGED <<metadata, comments, next_page_token>>
       \/ /\ Issued("videos", "raise", video_id)
          /\ Failed
          /\ pc' = "loop"
          /\ UNCHANGED <<metadata, comments, next_page_token>>
    /\ UNCHANGED <<run, auto_yes, confirm_all, quota_usage, settings, now,
                   files, video_ids, idx>>

\* variant: a refused comment page drops the video like a failure
CommConfirmE_denialSkips(est) ==
    /\ pc = "comm_confirm"
    /\ Confirm(est, "comments", CommentsCost, video_id, "comm_request", "loop", "loop")
    /\ UNCHANGED <<run, auto_yes, settings, now, files, video_ids,
                   next_page_token, idx, metadata, comments>>

\* line 145: the gate before each commentThreads.list page; a refusal breaks
\* the loop and the comments collected so far are returned
CommConfirmE(est) ==
    /\ pc = "comm_confirm"
    /\ Confirm(est, "comments", CommentsCost, video_id, "comm_request", "save", "loop")
    /\ UNCHANGED <<run, auto_yes, settings, now, files, video_ids,
                   next_page_token, idx, metadata, comments>>

CommConfirm == CommConfirmE(ESTIMATED_DAILY_QUOTA)

\* variant: a failing comment request ends the run
CommRequest_raiseStops ==
    /\ pc = "comm_request"
    /\ \/ \E res \in CommentPages(next_page_token) :
            /\ Issued("comments", "page", video_id)
            /\ UNCHANGED trace
            /\ comments' = comments \o FlattenItems(res.items)
            /\ next_page_token' = IF res.more THEN PageStart(next_page_token) + 1 ELSE None
            /\ pc' = IF res.more THEN "comm_confirm" ELSE "save"
       \/ /\ Issued("comments", "raise", video_id)
          /\ Failed
          /\ pc' = "crashed"
          /\ UNCHANGED <<comments, next_page_token>>
    /\ UNCHANGED <<run, auto_yes, confirm_all, quota_usage, settings, now,
                   files, video_ids, idx, metadata>>

\* lines 147-175: one commentThreads.list page
CommRequest ==
    /\ pc = "comm_request"
    /\ \/ \E res \in CommentPages(next_page_token) :
            /\ Issued("comments", "page", video_id)
            /\ UNCHANGED trace
            /\ comments' = comments \o FlattenItems(res.items)
            /\ next_page_token' = IF res.more THEN PageStart(next_page_token) + 1 ELSE None
            /\ pc' = IF res.more THEN "comm_confirm" ELSE "save"
       \/ /\ Issued("comments", "raise", video_id)
          /\ Failed
          /\ pc' = "loop"
          /\ UNCHANGED <<comments, next_page_token>>
    /\ UNCHANGED <<run, auto_yes, confirm_all, quota_usage, settings, now,
                   files, video_ids, idx, metadata>>

\* save_video_data: the record that line 79-87 builds
NewRecord == Record(strftime(now), metadata, comments)

\* lines 197-199: the record is written and the loop sleeps one second; a
\* failure before open() leaves the file alone, one after it a truncated file
Save ==
    /\ pc = "save"
    /\ \/ /\ files' = [files EXCEPT ![video_id] = NewRecord]
          /\ now' = now + 1
          /\ hist' = [hist EXCEPT !.writes = @ + 1]
          /\ last' = Event("save", "", "saved", 0, FALSE, FALSE, <<>>, video_id)
          /\ Written(video_id, last.op = "confirm", TRUE)
       \/ /\ UNCHANGED <<files, now, hist>>
          /\ last' = Event("save", "", "raise", 0, FALSE, FALSE, <<>>, video_id)
          /\ Failed
       \/ /\ files' = [files EXCEPT ![video_id] = CorruptFile]
          /\ Written(video_id, FALSE, FALSE)
          /\ hist' = [hist EXCEPT !.writes = @ + 1]
          /\ last' = Event("save", "", "raise", 0, FALSE, FALSE, <<>>, video_id)
          /\ UNCHANGED now
    /\ pc' = "loop"
    /\ UNCHANGED <<run, auto_yes, confirm_all, quota_usage, settings,
                   video_ids, next_page_token, idx, metadata, comments>>

---------------------------------------------------------------------------
(* A later run of the program on the same data directory, a second after   *)
(* the run before it ended: the records that run wrote are fresh under an  *)
(* interval of some days and stale under an interval of 0.                 *)

Ended == pc \in {"done", "aborted", "crashed"}

NewRun ==
    /\ Ended
    /\ run < MaxRuns
    /\ run' = run + 1
    /\ auto_yes' \in BOOLEAN
    /\ confirm_all' = FALSE
    /\ quota_usage' = 0
    /\ now' = now + 1
    /\ video_ids' = <<>>
    /\ next_page_token' = None
    /\ idx' = 0
    /\ metadata' = ""
    /\ comments' = <<>>
    /\ last' = Start
    /\ hist' = Hist0
    /\ trace' = [trace EXCEPT !.clean = TRUE]
    /\ pc' = "list_confirm"
    /\ UNCHANGED <<settings, files>>

NextWith(est) ==
    \/ ListConfirmE(est)
    \/ ListRequest
    \/ LoopNext
    \/ Finish
    \/ MetaConfirmE(est)
    \/ MetaRequest
    \/ CommConfirmE(est)
    \/ CommRequest
    \/ Save
    \/ NewRun

Next ==
    \/ ListConfirm
    \/ ListRequest
    \/ LoopNext
    \/ Finish
    \/ MetaConfirm
    \/ MetaRequest
    \/ CommConfirm
    \/ CommRequest
    \/ Save
    \/ NewRun

Spec == Init /\ [][Next]_vars

\* the same program answering prompts that show a percentage, with an
\* interval of some days, and the history of refused comment pages kept
RefusalInit ==
    /\ InitOn({PageSize}, Tracking)
    /\ ESTIMATED_DAILY_QUOTA = SearchCost
    /\ SCRAPE_INTERVAL_DAYS = DefaultInterval

RefusalSpec == RefusalInit /\ [][Next]_vars

\* the program keeps running and the operator answers every prompt: a step
\* that can be taken is taken
FairSpec == RefusalSpec /\ WF_vars(Next)

\* the same program started on a data directory that holds no file, with
\* pages that hold one video or several
PageSizes == 1..(PageSize + 1)

EmptyInit == InitOn(PageSizes, Trace0) /\ DirEmpty

EmptySpec == EmptyInit /\ [][Next]_vars

---------------------------------------------------------------------------
(* Module startup, lines 29-50, followed by main: the settings file may be *)
(* missing or unreadable, each required key may be missing or empty, and   *)
(* the data directory may or may not exist yet.                            *)

SettingsFiles == {"missing", "invalid", "ok"}

\* settings.get(key): the key is missing, or set to "" or to a value
KeyValues == { Key(FALSE, ""), Key(TRUE, ""), Key(TRUE, "X") }

\* variant: only a missing key is refused
Falsy_missingOnly(k) == ~ k.present

\* line 43: 'not API_KEY' holds for None and for ""
Falsy(k) == ~ k.present \/ k.value = ""

StartupInit ==
    /\ pc = "load_settings"
    /\ run = 1
    /\ auto_yes \in BOOLEAN
    /\ confirm_all = FALSE
    /\ quota_usage = 0
    /\ ESTIMATED_DAILY_QUOTA \in Estimates
    /\ SCRAPE_INTERVAL_DAYS = DefaultInterval
    /\ now = NowStart
    /\ channel \in Channels
    /\ files = [v \in VideoIds |-> NoFile]
    /\ video_ids = <<>>
    /\ next_page_token = None
    /\ idx = 0
    /\ metadata = ""
    /\ comments = <<>>
    /\ last = Start
    /\ hist = Hist0
    /\ trace = Trace0
    /\ maxResults = PageSize
    /\ startup \in [file : SettingsFiles, api_key : KeyValues, channel_id : KeyValues,
                     client : {FALSE}, dir : BOOLEAN, raised : {FALSE}]

StartupError ==
    /\ pc' = "startup_error"
    /\ startup' = [startup EXCEPT !.raised = TRUE]

StartupRest ==
    <<run, auto_yes, confirm_all, quota_usage, ESTIMATED_DAILY_QUOTA,
      SCRAPE_INTERVAL_DAYS, now, channel, files, video_ids, next_page_token,
      idx, metadata, comments, last, hist, trace, maxResults>>

\* lines 30-41: the settings file must exist and hold a JSON object
LoadSettings ==
    /\ pc = "load_settings"
    /\ IF startup.file = "ok"
       THEN pc' = "check_keys" /\ UNCHANGED startup
       ELSE StartupError
    /\ UNCHANGED StartupRest

\* lines 43-44
CheckKeys ==
    /\ pc = "check_keys"
    /\ IF Falsy(startup.api_key) \/ Falsy(startup.channel_id)
       THEN StartupError
       ELSE pc' = "build_client" /\ UNCHANGED startup
    /\ UNCHANGED StartupRest

\* line 47: the client is built, or build raises
BuildClient ==
    /\ pc = "build_client"
    /\ \/ /\ pc' = "makedirs"
          /\ startup' = [startup EXCEPT !.client = TRUE]
       \/ StartupError
    /\ UNCHANGED StartupRest

\* line 50: the data directory is created when it does not exist, or
\* makedirs raises
MakeDirs ==
    /\ pc = "makedirs"
    /\ \/ /\ pc' = "list_confirm"
          /\ startup' = [startup EXCEPT !.dir = TRUE]
       \/ StartupError
    /\ UNCHANGED StartupRest

StartupNext ==
    \/ LoadSettings
    \/ CheckKeys
    \/ BuildClient
    \/ MakeDirs
    \/ Next

StartupSpec == StartupInit /\ [][StartupNext]_vars

---------------------------------------------------------------------------
(* should_scrape on its own: the listing has returned one video, and the   *)
(* loop is about to test it against every kind of local file, clock and    *)
(* interval.                                                               *)

Titles == {"old", "older"}

ScrapeIntervals == {0, 1, DefaultInterval, NowDays - 1, NowDays, NowDays + 1}

ScrapeAges(interval) ==
    {0, 1, NowStart} \cup
    { a \in { timedelta(interval) - 1, timedelta(interval), timedelta(interval) + 1 } :
        a >= 0 /\ a <= NowStart }

ScrapeFiles(interval) ==
    { NoFile, CorruptFile } \cup
    { Record(stamp, title, cs) :
        stamp \in { NoStamp, BadStamp } \cup { strftime(NowStart - a) : a \in ScrapeAges(interval) },
        title \in Titles,
        cs \in { <<>>, OldComments } }

ScrapeInit ==
    /\ pc = "loop"
    /\ run = 1
    /\ auto_yes = TRUE
    /\ confirm_all = FALSE
    /\ quota_usage = SearchCost
    /\ ESTIMATED_DAILY_QUOTA = DefaultQuota
    /\ SCRAPE_INTERVAL_DAYS \in ScrapeIntervals
    /\ now \in {NowStart, NowStart + 1}
    /\ channel = <<"v1">>
    /\ files \in [VideoIds -> ScrapeFiles(SCRAPE_INTERVAL_DAYS)]
    /\ files["v2"] = NoFile
    /\ video_ids = <<"v1">>
    /\ next_page_token = None
    /\ idx = 0
    /\ metadata = ""
    /\ comments = <<>>
    /\ last = Event("request", "search", "page", 0, FALSE, FALSE, <<>>, "")
    /\ hist = [Hist0 EXCEPT !.approvals = 1, !.charged = SearchCost, !.requests = 1]
    /\ trace = Trace0
    /\ startup = Started
    /\ maxResults = PageSize

ScrapeNext == LoopNext

ScrapeSpec == ScrapeInit /\ [][ScrapeNext]_vars

---------------------------------------------------------------------------
(* Properties.                                                             *)

AtGate == pc \in {"list_confirm", "meta_confirm", "comm_confirm"}

AtRequest == pc \in {"list_request", "meta_request", "comm_request"}

\* the cost the call site at pc passes to confirm_action
GateCost ==
    CASE pc = "list_confirm" -> SearchCost
      [] pc = "meta_confirm" -> VideosCost
      [] OTHER -> CommentsCost

\* the request the call site at pc guards
GateRequest ==
    CASE pc = "list_confirm" -> "list_request"
      [] pc = "meta_confirm" -> "meta_request"
      [] OTHER -> "comm_request"

CostOf(kind) ==
    CASE kind = "search" -> SearchCost
      [] kind = "videos" -> VideosCost
      [] OTHER -> CommentsCost

\* a step that is one call of confirm_action
GateStep == AtGate /\ pc' # pc

Recognised == { <<"y">>, <<"a">>, <<"n">> }

\* C1: every call of confirm_action made with auto_yes true, or with
\* confirm_all already set, returns True, adds exactly the cost passed to
\* quota_usage, prints no prompt and reads no input.
C1_SetFlagProceeds ==
    [][ (GateStep /\ (auto_yes \/ confirm_all)) =>
            /\ last'.op = "confirm"
            /\ last'.ret = "True"
            /\ last'.cost = GateCost
            /\ quota_usage' = quota_usage + GateCost
            /\ ~ last'.prompted
            /\ ~ last'.read
            /\ pc' = GateRequest ]_vars

C1_Witness ==
    /\ auto_yes
    /\ last.op = "confirm"
    /\ last.kind = "comments"
    /\ last.ret = "True"
    /\ quota_usage = SearchCost + VideosCost + CommentsCost
    /\ ESTIMATED_DAILY_QUOTA = 0

\* C2: in interactive mode the answer 'a' (all) sets confirm_all, charges the
\* call and lets it proceed; confirm_all stays set for the rest of the run,
\* and every later call of confirm_action in the run proceeds and is charged
\* with no prompt printed.
C2_AllIsSticky ==
    /\ [][ (GateStep /\ ~ auto_yes /\ last'.read /\ last'.ans = <<"a">>) =>
               /\ confirm_all'
               /\ last'.ret = "True"
               /\ quota_usage' = quota_usage + GateCost
               /\ pc' = GateRequest ]_vars
    /\ [][ (confirm_all /\ run' = run) => confirm_all' ]_vars
    /\ [][ (GateStep /\ ~ auto_yes /\ confirm_all) =>
               /\ last'.ret = "True"
               /\ ~ last'.prompted
               /\ quota_usage' = quota_usage + GateCost
               /\ pc' = GateRequest ]_vars

C2_Witness ==
    /\ ~ auto_yes
    /\ confirm_all
    /\ pc = "comm_request"
    /\ last.op = "confirm"
    /\ ~ last.prompted
    /\ idx = 2

\* C3: the answer 'n' at any prompt, those inside the per-video try block
\* included, ends the run at once: the call charges nothing and writes
\* nothing, and after it the run issues no request, writes no file, visits no
\* video and prints no summary; an 'n' before any approval leaves no file
\* written.
C3_NoEndsTheRun ==
    /\ [][ (GateStep /\ last'.read /\ last'.ans = <<"n">>) =>
               /\ pc' = "aborted"
               /\ quota_usage' = quota_usage
               /\ files' = files
               /\ hist' = hist ]_vars
    /\ [][ pc = "aborted" => (run' = run + 1 /\ files' = files) ]_vars
    /\ [](pc = "aborted" =>
               /\ ~ hist.summary
               /\ last.op = "confirm" /\ last.ans = <<"n">>
               /\ (hist.approvals = 0 => (hist.writes = 0 /\ hist.requests = 0)))

C3_Witness ==
    /\ pc = "aborted"
    /\ last.kind = "comments"
    /\ idx = 2
    /\ hist.writes = 1

\* C4: a remote request is issued only in the step right after the call of
\* confirm_action for that request returned True and charged its cost (100
\* for a search.list page, 1 for videos.list, 1 for a commentThreads.list
\* page); the requests issued never exceed the approvals granted, and each
\* approval is used by exactly one request.
C4_RequestsFollowApprovals ==
    /\ [](hist.requests <= hist.approvals)
    /\ [](hist.approvals - hist.requests = Bit(AtRequest))
    /\ [][ (run' = run /\ hist'.requests # hist.requests) =>
               /\ hist'.requests = hist.requests + 1
               /\ last'.op = "request"
               /\ last.op = "confirm"
               /\ last.ret = "True"
               /\ last.kind = last'.kind
               /\ last.cost = CostOf(last'.kind)
               /\ hist.charged >= last.cost ]_vars

C4_Witness ==
    /\ ~ auto_yes
    /\ last.op = "request"
    /\ last.kind = "comments"
    /\ hist.requests = 4
    /\ hist.approvals = 4

\* C5: an answer other than 'y', 'a' and 'n' makes confirm_action return
\* False with quota_usage and confirm_all unchanged; the run is not ended
\* and the request the prompt was about is not issued.
C5_OtherAnswerDeclines ==
    [][ (GateStep /\ last'.read /\ last'.ans \notin Recognised) =>
            /\ last'.ret = "False"
            /\ quota_usage' = quota_usage
            /\ confirm_all' = confirm_all
            /\ hist' = hist
            /\ pc' \notin {"aborted", "crashed"}
            /\ pc' # GateRequest
            /\ pc' = (IF pc = "comm_confirm" THEN "save" ELSE "loop") ]_vars

C5_Witness ==
    /\ last.op = "confirm"
    /\ last.ret = "False"
    /\ last.ans = <<"a", "l", "l">>
    /\ pc = "save"

\* C6: quota_usage starts at 0, never decreases during a run and changes
\* only in a call of confirm_action that returns True, by exactly the cost
\* passed; it always equals the sum of the costs of the approvals granted.
C6_QuotaIsSumOfApprovals ==
    /\ [](quota_usage = hist.charged)
    /\ [](last = Start => quota_usage = 0)
    /\ [][ run' = run =>
               /\ quota_usage' >= quota_usage
               /\ (quota_usage' # quota_usage =>
                       /\ GateStep
                       /\ last'.ret = "True"
                       /\ last'.cost = GateCost
                       /\ quota_usage' = quota_usage + GateCost) ]_vars

C6_Witness ==
    /\ ~ auto_yes
    /\ ~ confirm_all
    /\ pc = "done"
    /\ quota_usage = SearchCost + VideosCost + 2 * CommentsCost

\* C7: estimated_daily_quota is never enforced: in auto-yes mode every step
\* of the run is a step of the program under any other estimate as well, the
\* run is never ended by the gate, it stops early only when a search.list
\* request fails, and it ends having visited every video of the listing and
\* printed the summary.
C7_EstimateNotEnforced ==
    /\ [][ auto_yes => \A e \in Estimates \cup {DefaultQuota} : NextWith(e) ]_vars
    /\ [](auto_yes =>
              /\ pc # "aborted"
              /\ (pc = "crashed" => (last.op = "request" /\ last.kind = "search"))
              /\ (pc = "done" => (hist.summary /\ hist.visited = channel)))

C7_Witness ==
    /\ auto_yes
    /\ pc = "done"
    /\ quota_usage > ESTIMATED_DAILY_QUOTA
    /\ ESTIMATED_DAILY_QUOTA > 0
    /\ Len(hist.visited) = 2

\* a record whose scraped_at cannot be parsed, or a file that is no record
Unreadable(f) ==
    f.kind = "corrupt" \/ (f.kind = "record" /\ f.scraped_at.kind = "malformed")

Readable(f) == f.kind = "record" /\ f.scraped_at.kind # "malformed"

\* the instant a readable record was scraped at, the epoch when it says none
ScrapedAt(f) == IF f.scraped_at.kind = "ok" THEN f.scraped_at.t ELSE 0

Age(f) == now - ScrapedAt(f)

IntervalSeconds == SCRAPE_INTERVAL_DAYS * SecondsPerDay

\* C8: should_scrape returns True exactly when the video has no file, or the
\* file cannot be read or parsed, or now - scraped_at is strictly greater
\* than scrape_interval_days; for a readable record it returns False iff
\* now - scraped_at <= scrape_interval_days, an age of exactly the interval
\* included, and the record's other fields do not change the result.
C8_ShouldScrapeExact ==
    last.op = "visit" =>
        LET f == files[last.video] IN
        /\ (last.ret = "True") <=>
               \/ f.kind = "none"
               \/ Unreadable(f)
               \/ (Readable(f) /\ Age(f) > IntervalSeconds)
        /\ Readable(f) => ((last.ret = "False") <=> (Age(f) <= IntervalSeconds))
        /\ (Readable(f) /\ Age(f) = IntervalSeconds) => last.ret = "False"
        /\ f.kind = "record" =>
               \A title \in Titles \cup {"new"}, cs \in { <<>>, OldComments } :
                   should_scrape_of([f EXCEPT !.title = title, !.comments = cs],
                                    now, SCRAPE_INTERVAL_DAYS)
                       = (last.ret = "True")

C8_Witness ==
    /\ last.op = "visit"
    /\ last.ret = "False"
    /\ Readable(files[last.video])
    /\ files[last.video].scraped_at.kind = "ok"
    /\ SCRAPE_INTERVAL_DAYS = DefaultInterval
    /\ Age(files[last.video]) = IntervalSeconds

\* C9: for a record that has no scraped_at field should_scrape returns True,
\* whatever the clock and the configured scrape_interval_days are.
C9_MissingStampAlwaysRefetched ==
    (/\ last.op = "visit"
     /\ files[last.video].kind = "record"
     /\ files[last.video].scraped_at.kind = "missing")
        => last.ret = "True"

\* a listed video whose record is readable and not older than the interval
Fresh(f) == Readable(f) /\ Age(f) <= IntervalSeconds

Processing == pc \in {"meta_confirm", "meta_request", "comm_confirm", "comm_request", "save"}

\* C10: a video is fetched only when its record is missing, unreadable or
\* stale: when the loop reaches a video whose readable record is not older
\* than scrape_interval_days, the iteration makes no call of confirm_action
\* and no request, leaves quota_usage unchanged and leaves every file as it
\* is; a file changes only when the record of the video being processed is
\* written.
C10_FreshVideoSkipped ==
    /\ [][ (pc = "loop" /\ idx < Len(video_ids) /\ Fresh(files[video_ids[idx + 1]])) =>
               /\ pc' = "loop"
               /\ idx' = idx + 1
               /\ last'.op = "visit"
               /\ last'.ret = "False"
               /\ quota_usage' = quota_usage
               /\ files' = files
               /\ hist'.approvals = hist.approvals
               /\ hist'.requests = hist.requests
               /\ hist'.writes = hist.writes ]_vars
    /\ [](Processing => ~ Fresh(files[video_id]))
    /\ [][ files' # files =>
               /\ pc = "save"
               /\ \A v \in VideoIds \ {video_id} : files'[v] = files[v] ]_vars

C10_Witness ==
    /\ last.op = "visit"
    /\ last.ret = "False"
    /\ idx = 2
    /\ hist.writes = 1
    /\ files[last.video].title = "old"
    /\ SCRAPE_INTERVAL_DAYS = DefaultInterval

---------------------------------------------------------------------------
(* Records and the fetches behind them.                                    *)

\* the comment pagination of the current video ran to its last page
FetchedNow == pc = "save" /\ last.op = "request" /\ last.ret = "page"

\* C11 as stated: in the first run on an empty data directory, when the
\* iteration of a video ends in save_video_data, a file for the video exists
\* afterwards if and only if its metadata and all its comment pages were
\* fetched.
C11_FileIffFetched ==
    [][ (run = 1 /\ pc = "save") =>
            ((files'[video_id].kind # "none") <=> FetchedNow) ]_vars

\* C11: on a data directory that started empty, a file for a video comes to
\* exist only in save_video_data, which is reached only after the metadata
\* request of that video returned an item and its comment pagination ended,
\* on its last page or on a refusal of the gate; a write that succeeds
\* leaves the record built from the metadata and the comments gathered, a
\* write that fails leaves the file as it was or truncated.
C11_FileOnlyAfterPagination ==
    /\ [][ files' # files =>
               /\ pc = "save"
               /\ \A v \in VideoIds \ {video_id} : files'[v] = files[v] ]_vars
    /\ [][ (pc' = "save" /\ pc # "save") =>
               /\ metadata = "new"
               /\ \/ pc = "comm_confirm" /\ last'.ret = "False"
                  \/ pc = "comm_request" /\ last'.ret = "page" /\ next_page_token' = None ]_vars
    /\ [][ (pc' = "comm_confirm" /\ pc # "comm_request") =>
               /\ pc = "meta_request"
               /\ last'.ret = "item"
               /\ last'.video = video_id ]_vars
    /\ [][ pc = "save" =>
               /\ last'.op = "save"
               /\ last'.ret = "saved" => files'[video_id] = NewRecord
               /\ last'.ret = "raise" => files'[video_id] \in {files[video_id], CorruptFile} ]_vars

\* a record written after the gate refused the second comment page
C11_Witness ==
    /\ run = 1
    /\ last.op = "save"
    /\ last.ret = "saved"
    /\ next_page_token # None
    /\ files[last.video].kind = "record"
    /\ Len(files[last.video].comments) = 1
    /\ files["v2"].kind = "none"

---------------------------------------------------------------------------
(* Failures while one video is processed.                                  *)

Runs == 1..MaxRuns

\* the run ended after its loop: by the summary, or by the answer 'n'
LoopEnded(r) ==
    /\ run = r
    /\ \/ pc = "aborted"
       \/ pc = "done" /\ hist.summary /\ hist.visited = video_ids

\* C12: an exception raised by the metadata request, a comment request or
\* the record write of a video is caught in that iteration: control is back
\* at the loop on the same video, which is not tried again, the next step
\* takes the next video of the listing or prints the summary, the videos
\* visited are always the first idx of the listing in its order, and the run
\* goes on to its summary unless the operator ends it with 'n'.
C12_FailureSkipsOneVideo ==
    /\ [][ (Processing /\ last'.op \in {"request", "save"} /\ last'.ret = "raise") =>
               /\ pc' = "loop"
               /\ idx' = idx
               /\ video_ids' = video_ids
               /\ run' = run
               /\ last'.video = video_id
               /\ hist'.visited = hist.visited ]_vars
    /\ [][ pc = "loop" =>
               \/ /\ idx < Len(video_ids)
                  /\ idx' = idx + 1
                  /\ last'.op = "visit"
                  /\ last'.video = video_ids[idx + 1]
               \/ /\ idx = Len(video_ids)
                  /\ pc' = "done"
                  /\ hist'.summary ]_vars
    /\ [](pc \in {"loop", "done"} \/ Processing =>
             hist.visited = SubSeq(video_ids, 1, idx))
    /\ [](pc = "done" => hist.summary /\ hist.visited = video_ids)
    /\ [](pc = "crashed" => idx = 0)
    /\ \A r \in Runs :
          (run = r /\ pc = "loop" /\ last.ret = "raise") ~> LoopEnded(r)

\* the first video failed in its comment request, the second one was
\* written, and the summary was printed
C12_Witness ==
    /\ pc = "done"
    /\ hist.summary
    /\ hist.visited = <<"v1", "v2">>
    /\ hist.writes = 1
    /\ files["v1"].kind = "none"
    /\ files["v2"].title = "new"
    /\ ~ trace.clean
    /\ hist.requests = 5
    /\ hist.approvals = 5

\* the metadata request of the current video returned no item
Absent == last.op = "request" /\ last.kind = "videos" /\ last.ret = "None"

\* C13: when videos.list returns no item for the video being processed,
\* control goes back to the loop with every file, the quota and the write
\* count as they were; the step after it takes the next video of the
\* listing or prints the summary, and a comment request is only ever made
\* for the current video, after its metadata request returned an item.
C13_AbsentVideoSkipped ==
    /\ [][ (pc = "meta_request" /\ last'.ret = "None") =>
               /\ pc' = "loop"
               /\ idx' = idx
               /\ files' = files
               /\ quota_usage' = quota_usage
               /\ hist'.writes = hist.writes
               /\ hist'.approvals = hist.approvals ]_vars
    /\ [](Absent => pc = "loop" /\ last.video = video_id)
    /\ [][ Absent =>
               /\ files' = files
               /\ hist'.requests = hist.requests
               /\ \/ idx' = idx + 1 /\ last'.op = "visit"
                  \/ pc' = "done" /\ idx = Len(video_ids) ]_vars
    /\ [][ (pc = "meta_request" /\ pc' \in {"comm_confirm", "comm_request", "save"}) =>
               last'.ret = "item" ]_vars
    /\ [][ (last'.op = "request" /\ last'.kind = "comments") =>
               /\ pc = "comm_request"
               /\ idx' = idx
               /\ last'.video = video_id ]_vars

\* a listed video with a stale record is absent on the platform: its record
\* is the old one and the loop goes on
C13_Witness ==
    /\ Absent
    /\ pc = "loop"
    /\ last.video = "v1"
    /\ Len(video_ids) = 2
    /\ files["v1"].title = "old"
    /\ Age(files["v1"]) > IntervalSeconds
    /\ hist.writes = 0
    /\ hist.requests = 3

---------------------------------------------------------------------------
(* The cost of a run in which nothing is refused and nothing fails.        *)

\* search.list pages the channel has: an empty channel still answers one
ListPages ==
    IF Len(channel) = 0 THEN 1
    ELSE (Len(channel) + maxResults - 1) \div maxResults

\* comment pages behind a sequence of comments: each page the platform
\* serves holds one thread, and a video without comments has one empty page
PagesOf(cs) ==
    IF cs = <<>> THEN 1
    ELSE Cardinality({ i \in 1..Len(cs) : cs[i].parent_id = None })

RECURSIVE RecordedPages(_)
RecordedPages(ids) ==
    IF ids = <<>> THEN 0
    ELSE PagesOf(files[Head(ids)].comments) + RecordedPages(Tail(ids))

\* C14: when the first run on an empty data directory ends with every gate
\* call approved and no failure, every video of the channel was listed,
\* each listed video has exactly one record holding its comments (possibly
\* none), no other file exists, and quota_usage is SearchCost for each
\* listing page plus VideosCost for each listed video plus CommentsCost for
\* each comment page fetched; on a two-video channel listed in one page
\* that is SearchCost + 2 + the comment pages.
C14_FullRunCost ==
    (pc = "done" /\ run = 1 /\ trace.clean) =>
        /\ video_ids = channel
        /\ hist.visited = video_ids
        /\ \A v \in VideoIds :
              IF v \in Range(video_ids)
              THEN /\ files[v].kind = "record"
                   /\ files[v].title = "new"
                   /\ iso_parses(files[v].scraped_at)
              ELSE files[v].kind = "none"
        /\ hist.writes = Len(video_ids)
        /\ hist.requests = ListPages + Len(video_ids) + RecordedPages(video_ids)
        /\ quota_usage = SearchCost * ListPages
                           + VideosCost * Len(video_ids)
                           + CommentsCost * RecordedPages(video_ids)
        /\ (Len(channel) = 2 /\ maxResults >= 2) =>
               quota_usage = SearchCost + 2 + RecordedPages(video_ids)

\* two videos listed in one page, two comment pages for the first and an
\* empty one for the second
C14_Witness ==
    /\ pc = "done"
    /\ run = 1
    /\ trace.clean
    /\ maxResults = 2
    /\ video_ids = <<"v1", "v2">>
    /\ Len(files["v1"].comments) = 3
    /\ files["v2"].kind = "record"
    /\ files["v2"].comments = <<>>
    /\ quota_usage = SearchCost + 2 + 3

---------------------------------------------------------------------------
(* Pagination.                                                             *)

Listing == pc \in {"list_confirm", "list_request"}

NoDuplicates(seq) ==
    \A i, j \in 1..Len(seq) : i # j => seq[i] # seq[j]

\* the comments of the first k pages of a video, in page order
RECURSIVE FirstPages(_)
FirstPages(k) ==
    IF k = 0 THEN <<>>
    ELSE FirstPages(k - 1) \o FlattenItems(<<Thread(k)>>)

\* C15: both paginations end on the response that carries no continuation
\* token and go on to the gate of the next page otherwise. While the listing
\* runs, after N pages of size maxResults video_ids holds exactly the first
\* min(Len(channel), N * maxResults) ids of the channel, in order and
\* without duplicates; when it ends on a response it holds the whole
\* channel, and it is not changed afterwards. The comments gathered after k
\* pages are the comments of pages 1..k in page order.
C15_PaginationComplete ==
    /\ [][ (pc = "list_request" /\ last'.ret = "page") =>
               /\ next_page_token' = SearchNextToken(next_page_token)
               /\ (next_page_token' = None) <=> (pc' = "loop")
               /\ (next_page_token' # None) <=> (pc' = "list_confirm")
               /\ pc' = "loop" => video_ids' = channel ]_vars
    /\ [](Listing =>
             /\ Len(video_ids) = Min(Len(channel), hist.requests * maxResults)
             /\ hist.approvals = hist.requests + (IF pc = "list_request" THEN 1 ELSE 0))
    /\ [](/\ Len(video_ids) <= Len(channel)
          /\ video_ids = SubSeq(channel, 1, Len(video_ids))
          /\ NoDuplicates(video_ids))
    /\ [][ (~ Listing /\ run' = run) => (~ Listing' /\ video_ids' = video_ids) ]_vars
    /\ [][ (pc = "comm_request" /\ last'.ret = "page") =>
               /\ (next_page_token' = None) <=> (pc' = "save")
               /\ (next_page_token' # None) <=> (pc' = "comm_confirm")
               /\ next_page_token' # None => next_page_token' = PageStart(next_page_token) + 1 ]_vars
    /\ [](pc \in {"comm_confirm", "comm_request"} =>
             comments = FirstPages(PageStart(next_page_token) - 1))
    /\ [](FetchedNow => \E k \in 0..MaxCommentPages : comments = FirstPages(k))

\* a channel of two pages was listed and both comment pages of its first
\* video were fetched
C15_Witness ==
    /\ FetchedNow
    /\ maxResults = 1
    /\ video_ids = <<"v1", "v2">>
    /\ idx = 1
    /\ comments = FirstPages(2)
    /\ Len(comments) = 3
    /\ hist.requests = 5
    /\ trace.clean

\* the gate returned False on this step
Refusal == GateStep /\ last'.op = "confirm" /\ last'.ret = "False"

\* C16: when the gate refuses page k of the listing, get_all_video_ids
\* returns without an exception the ids of pages 1..k-1 in order: control
\* is at the loop with video_ids, the quota and the request count as they
\* were, the listing is not resumed in that run, and the quota at the start
\* of the loop is SearchCost for each page received. When it refuses page k
\* of the comments of a video, get_video_comments returns the comments of
\* pages 1..k-1: control is at save_video_data with comments, the quota and
\* the request count as they were, and those comments are what is written.
C16_RefusalTruncates ==
    /\ [][ (Refusal /\ pc = "list_confirm") =>
               /\ pc' = "loop"
               /\ video_ids' = video_ids
               /\ video_ids = SubSeq(channel, 1,
                                      Min(Len(channel), hist.requests * maxResults))
               /\ quota_usage' = quota_usage
               /\ hist'.requests = hist.requests
               /\ hist'.charged = hist.charged ]_vars
    /\ [][ (~ Listing /\ run' = run) =>
               /\ ~ Listing'
               /\ video_ids' = video_ids
               /\ last'.kind # "search" ]_vars
    /\ [](pc = "loop" /\ idx = 0 =>
             /\ quota_usage = SearchCost * hist.requests
             /\ hist.approvals = hist.requests)
    /\ [][ (Refusal /\ pc = "comm_confirm") =>
               /\ pc' = "save"
               /\ comments' = comments
               /\ comments = FirstPages(PageStart(next_page_token) - 1)
               /\ quota_usage' = quota_usage
               /\ hist'.requests = hist.requests
               /\ hist'.charged = hist.charged ]_vars
    /\ [][ pc = "save" =>
               /\ pc' = "loop"
               /\ hist'.requests = hist.requests
               /\ quota_usage' = quota_usage
               /\ last'.ret = "saved" => files'[video_id].comments = comments ]_vars

\* the second page of a two-page listing was refused: one id is returned
\* and one page is charged
C16_Witness ==
    /\ pc = "loop"
    /\ idx = 0
    /\ last.op = "confirm"
    /\ last.kind = "search"
    /\ last.ret = "False"
    /\ channel = <<"v1", "v2">>
    /\ video_ids = <<"v1">>
    /\ quota_usage = SearchCost
    /\ hist.requests = 1

---------------------------------------------------------------------------
(* Startup.                                                                *)

\* the key is not in the settings file, or is set to the empty string
MissingOrEmpty(k) == k \in { Key(FALSE, ""), Key(TRUE, "") }

BadSettings ==
    \/ startup.file = "missing"
    \/ MissingOrEmpty(startup.api_key)
    \/ MissingOrEmpty(startup.channel_id)

BeforeClient == pc \in {"load_settings", "check_keys", "startup_error"}

\* C17: when the settings file is missing, or api_key or channel_id is
\* missing or empty, startup raises before the client is built and before
\* the data directory is created: the client never exists, the directory
\* and every file stay as they were, no gate call, request or write is ever
\* made, and nothing follows the error.
C17_BadSettingsAbort ==
    /\ [](BadSettings =>
             /\ BeforeClient
             /\ ~ startup.client
             /\ hist = Hist0
             /\ last = Start
             /\ quota_usage = 0
             /\ DirEmpty)
    /\ [][ BadSettings => startup'.dir = startup.dir /\ files' = files ]_vars
    /\ [][ (BadSettings /\ pc' # pc) => pc' \in {"check_keys", "startup_error"} ]_vars
    /\ [][ (BadSettings /\ pc = "check_keys") => pc' = "startup_error" ]_vars
    /\ [][ (startup.file = "missing" /\ pc = "load_settings") => pc' = "startup_error" ]_vars
    /\ [][ pc = "startup_error" => pc' = "startup_error" ]_vars
    /\ [](pc = "startup_error" => startup.raised)
    /\ [](hist.approvals + hist.requests + hist.writes > 0 =>
             startup.client /\ startup.dir /\ ~ BadSettings)

\* the settings file is there but api_key is empty: startup has raised, no
\* client, no data directory
C17_Witness ==
    /\ pc = "startup_error"
    /\ startup.raised
    /\ startup.file = "ok"
    /\ startup.api_key = Key(TRUE, "")
    /\ startup.channel_id = Key(TRUE, "X")
    /\ ~ startup.client
    /\ ~ startup.dir

---------------------------------------------------------------------------
(* Records written after a refused comment page.                           *)

\* C18: when the gate refuses a comment page of the video being processed,
\* save_video_data is still called with the comments of the pages before
\* it; a write that succeeds replaces the file of the video by a record
\* that holds exactly those comments and the current time, which
\* should_scrape finds fresh up to scrape_interval_days later and stale one
\* second after that. When a run meets such a record within the interval it
\* skips the video: no gate call, no request, the record stays as it is;
\* the record is replaced only once it is older than the interval.
C18_PartialRecordKept ==
    /\ [][ (Refusal /\ pc = "comm_confirm") =>
               /\ pc' = "save"
               /\ comments' = comments
               /\ metadata' = metadata
               /\ files' = files ]_vars
    /\ [][ (pc = "save" /\ last.op = "confirm" /\ last'.ret = "saved") =>
               /\ files'[video_id] =
                      Record(strftime(now), "new", FirstPages(PageStart(next_page_token) - 1))
               /\ video_id \in trace'.partial
               /\ \A t \in {now, now', now + IntervalSeconds} :
                      ~ should_scrape_of(files'[video_id], t, SCRAPE_INTERVAL_DAYS)
               /\ should_scrape_of(files'[video_id], now + IntervalSeconds + 1,
                                   SCRAPE_INTERVAL_DAYS) ]_vars
    /\ [](\A v \in trace.partial :
             /\ files[v].kind = "record"
             /\ files[v].title = "new"
             /\ \E k \in 0..(MaxCommentPages - 1) : files[v].comments = FirstPages(k))
    /\ [][ (/\ pc = "loop"
            /\ idx < Len(video_ids)
            /\ video_ids[idx + 1] \in trace.partial
            /\ Age(files[video_ids[idx + 1]]) <= IntervalSeconds) =>
               /\ pc' = "loop"
               /\ idx' = idx + 1
               /\ last'.ret = "False"
               /\ files' = files
               /\ trace'.partial = trace.partial
               /\ quota_usage' = quota_usage
               /\ hist'.approvals = hist.approvals
               /\ hist'.requests = hist.requests ]_vars
    /\ [][ \A v \in trace.partial :
               files'[v] # files[v] => Age(files[v]) > IntervalSeconds ]_vars

\* a later run has skipped a video whose record holds the first comment
\* page only, the second page having been refused in the run before
C18_Witness ==
    /\ run = 2
    /\ pc = "loop"
    /\ last.op = "visit"
    /\ last.ret = "False"
    /\ last.video = "v1"
    /\ "v1" \in trace.partial
    /\ files["v1"].comments = FirstPages(1)
    /\ hist.requests = 1

\* the gate refused the metadata request of the current video
MetaRefused == last.op = "confirm" /\ last.kind = "videos" /\ last.ret = "False"

\* C19: when the gate refuses the metadata request of a video, control is
\* back at the loop as for a video the platform does not return: the quota,
\* the counts of approvals, requests and writes and every file are as they
\* were, the step after it takes the next video of the listing or prints
\* the summary, and a videos or comments request is only ever issued right
\* after the gate approved it for the same video.
C19_MetadataRefusalSkips ==
    /\ [][ (Refusal /\ pc = "meta_confirm") =>
               /\ pc' = "loop"
               /\ idx' = idx
               /\ quota_usage' = quota_usage
               /\ files' = files
               /\ hist' = hist
               /\ last'.video = video_id ]_vars
    /\ [](MetaRefused => pc = "loop" /\ last.video = video_id)
    /\ [][ MetaRefused =>
               /\ files' = files
               /\ quota_usage' = quota_usage
               /\ hist'.requests = hist.requests
               /\ hist'.writes = hist.writes
               /\ \/ idx' = idx + 1 /\ last'.op = "visit"
                  \/ pc' = "done" /\ idx = Len(video_ids) ]_vars
    /\ [][ (last'.op = "request" /\ last'.kind \in {"videos", "comments"}) =>
               /\ last.op = "confirm"
               /\ last.ret = "True"
               /\ last.kind = last'.kind
               /\ last.video = last'.video
               /\ idx' = idx ]_vars

\* the metadata request of the first of two listed videos was refused: its
\* old record is still there and only the listing was charged
C19_Witness ==
    /\ MetaRefused
    /\ pc = "loop"
    /\ last.video = "v1"
    /\ Len(video_ids) = 2
    /\ files["v1"].title = "old"
    /\ quota_usage = 2 * SearchCost
    /\ hist.requests = 2
    /\ hist.writes = 0

---------------------------------------------------------------------------
(* A failure of the listing.                                               *)

\* the run ended on an exception of a search.list request
ListingFailed == pc = "crashed" /\ last.op = "request"

\* C20: an exception raised by a search.list request ends the run there:
\* the step leaves video_ids, the quota and every file as they were, the
\* quota is SearchCost for every page approved, the failed one included, no
\* video was visited, no file was written and no summary was printed,
\* whatever the earlier pages returned, and nothing more happens in that
\* run.
C20_ListingFailureEndsRun ==
    /\ [][ (pc = "list_request" /\ last'.ret = "raise") =>
               /\ pc' = "crashed"
               /\ video_ids' = video_ids
               /\ quota_usage' = quota_usage
               /\ files' = files
               /\ idx' = idx
               /\ hist'.visited = hist.visited ]_vars
    /\ [](ListingFailed =>
             /\ last.kind = "search"
             /\ last.ret = "raise"
             /\ idx = 0
             /\ hist.visited = <<>>
             /\ hist.writes = 0
             /\ ~ hist.summary
             /\ hist.approvals = hist.requests
             /\ quota_usage = SearchCost * hist.approvals
             /\ Len(video_ids) = (hist.requests - 1) * maxResults
             /\ video_ids = SubSeq(channel, 1, Len(video_ids)))
    /\ [][ pc = "crashed" => run' = run + 1 /\ files' = files ]_vars

\* the first page returned an id and the request of the second page failed
C20_Witness ==
    /\ ListingFailed
    /\ run = 1
    /\ maxResults = 1
    /\ channel = <<"v1", "v2">>
    /\ video_ids = <<"v1">>
    /\ quota_usage = 2 * SearchCost
    /\ hist.requests = 2
    /\ hist.visited = <<>>

=============================================================================
